---------------------------- MODULE Spec2Model ----------------------------
(***************************************************************************)
(* Variant QC filtering engine of ukb-postqc-ldsc (post_QC.py): the exact  *)
(* HWE test, the EMAC estimator, the annotation parser, the genotype-count *)
(* resolver and the streaming driver main().                               *)
(*                                                                         *)
(* Text is modelled by TLA+ strings handled character by character.        *)
(* A Python float is modelled as a decimal floating-point number <<m, e>>  *)
(* of value m * 10^e with a four-digit mantissa (1000 <= |m| <= 9999, or   *)
(* <<0, 0>> for zero); every operation truncates its exact result to four  *)
(* significant digits, where IEEE-754 rounds to 53 bits.  None is the      *)
(* empty tuple, and a dict is a function on its set of keys.               *)
(***************************************************************************)
EXTENDS Integers, Sequences, FiniteSets, TLC

VARIABLES pc, args, cols, inp, out, err, total, kept, filtered_emac,
          filtered_hwe, line, counts, hwe_p, emac, pass_hwe, pass_emac, policy

vars == <<pc, args, cols, inp, out, err, total, kept, filtered_emac,
          filtered_hwe, line, counts, hwe_p, emac, pass_hwe, pass_emac, policy>>

None == <<>>

-----------------------------------------------------------------------------
(* Bounds of the exploration.                                              *)

\* data lines read by one run of the driver
MaxLines == 2

\* largest genotype count of the triples given to hwe_pvalue
MaxCount == 4

-----------------------------------------------------------------------------
(* Floating point.                                                         *)

Abs(x) == IF x < 0 THEN -x ELSE x

Sign(x) == IF x < 0 THEN -1 ELSE 1

RECURSIVE Pow10(_)
Pow10(k) == IF k <= 0 THEN 1 ELSE 10 * Pow10(k - 1)

\* m * 10^e as a float: the mantissa is cut to four significant digits
RECURSIVE Norm(_, _)
Norm(m, e) ==
    IF m = 0 THEN <<0, 0>>
    ELSE IF Abs(m) >= 10000 THEN Norm(Sign(m) * (Abs(m) \div 10), e + 1)
    ELSE IF Abs(m) < 1000 THEN Norm(m * 10, e - 1)
    ELSE <<m, e>>

FromInt(k) == Norm(k, 0)

Zero == <<0, 0>>

One == FromInt(1)

FNeg(x) == <<-x[1], x[2]>>

FAdd(x, y) ==
    IF x[1] = 0 THEN y
    ELSE IF y[1] = 0 THEN x
    ELSE LET big   == IF x[2] >= y[2] THEN x ELSE y
             small == IF x[2] >= y[2] THEN y ELSE x
             d     == big[2] - small[2]
         IN  IF d > 4 THEN big
             ELSE Norm(big[1] * Pow10(d) + small[1], small[2])

FSub(x, y) == FAdd(x, FNeg(y))

FMul(x, y) == Norm(x[1] * y[1], x[2] + y[2])

\* the sign of x - y is exact: a difference is cut, never rounded across zero
FLe(x, y) == FSub(x, y)[1] <= 0

FGe(x, y) == FLe(y, x)

FLt(x, y) == ~FLe(y, x)

\* num / den for integers num >= 0, den > 0, as a float
RECURSIVE FDivInt(_, _, _)
FDivInt(num, den, k) ==
    IF num = 0 THEN Zero
    ELSE IF num < 1000 * den /\ num < 100000000
         THEN FDivInt(num * 10, den, k + 1)
         ELSE Norm(num \div den, -k)

\* int(x): truncation toward zero
FloatToInt(x) ==
    IF x[2] >= 0 THEN x[1] * Pow10(x[2])
    ELSE Sign(x[1]) * (Abs(x[1]) \div Pow10(-x[2]))

FMin(x, y) == IF FLt(y, x) THEN y ELSE x

-----------------------------------------------------------------------------
(* Text.                                                                   *)

Char(s, i) == SubSeq(s, i, i)

\* s.split(sep): always at least one piece
RECURSIVE SplitFrom(_, _, _, _)
SplitFrom(s, sep, i, start) ==
    IF i > Len(s) THEN <<SubSeq(s, start, Len(s))>>
    ELSE IF Char(s, i) = sep
         THEN <<SubSeq(s, start, i - 1)>> \o SplitFrom(s, sep, i + 1, i + 1)
         ELSE SplitFrom(s, sep, i + 1, start)

Split(s, sep) == SplitFrom(s, sep, 1, 1)

\* index of the first c in s, 0 when there is none
RECURSIVE Find(_, _, _)
Find(s, c, i) ==
    IF i > Len(s) THEN 0
    ELSE IF Char(s, i) = c THEN i
    ELSE Find(s, c, i + 1)

IsSpace(c) == c \in {" ", "\t", "\n", "\r"}

RECURSIVE LStrip(_)
LStrip(s) ==
    IF Len(s) > 0 /\ IsSpace(Char(s, 1)) THEN LStrip(SubSeq(s, 2, Len(s))) ELSE s

RECURSIVE RStrip(_)
RStrip(s) ==
    IF Len(s) > 0 /\ IsSpace(Char(s, Len(s)))
    THEN RStrip(SubSeq(s, 1, Len(s) - 1)) ELSE s

Strip(s) == LStrip(RStrip(s))

\* s.rstrip("\n")
RECURSIVE RStripNL(_)
RStripNL(s) ==
    IF Len(s) > 0 /\ Char(s, Len(s)) = "\n"
    THEN RStripNL(SubSeq(s, 1, Len(s) - 1)) ELSE s

IsDigit(c) == c \in {"0", "1", "2", "3", "4", "5", "6", "7", "8", "9"}

DigitVal(c) == CHOOSE d \in 0..9 : Char("0123456789", d + 1) = c

\* the run of digits of s from position i: <<value, digits read, next position>>
RECURSIVE ScanDigits(_, _, _, _)
ScanDigits(s, i, acc, n) ==
    IF i <= Len(s) /\ IsDigit(Char(s, i))
    THEN ScanDigits(s, i + 1, acc * 10 + DigitVal(Char(s, i)), n + 1)
    ELSE <<acc, n, i>>

\* float(x) or None: [sign] digits [. digits] [e [sign] digits], blanks around.
\* The text is read left to right, each stage handing what it read to the next:
\* the exponent, when one is announced, then the end of the text
ParseExponent(s, sg, fp, nd, j, ep) ==
    LET hasExp == j <= Len(s) /\ Char(s, j) \in {"e", "E"}
        eneg   == j + 1 <= Len(s) /\ Char(s, j + 1) = "-"
        expo   == IF hasExp THEN (IF eneg THEN -ep[1] ELSE ep[1]) ELSE 0
        stop   == IF hasExp THEN ep[3] ELSE j
    IN  IF nd > 0 /\ (hasExp => ep[2] > 0) /\ stop = Len(s) + 1
        THEN Norm(sg * fp[1], expo - fp[2]) ELSE None

\* the digits after the point, fp = <<mantissa, digits after the point, next>>
ParseFraction(s, sg, nint, fp) ==
    ParseExponent(s, sg, fp, nint + fp[2], fp[3],
        ScanDigits(s, IF fp[3] + 1 <= Len(s) /\ Char(s, fp[3] + 1) \in {"+", "-"}
                      THEN fp[3] + 2 ELSE fp[3] + 1, 0, 0))

\* the digits before the point, ip = <<value, digits read, next>>
ParseInteger(s, sg, ip) ==
    ParseFraction(s, sg, ip[2],
        IF ip[3] <= Len(s) /\ Char(s, ip[3]) = "."
        THEN ScanDigits(s, ip[3] + 1, ip[1], 0) ELSE <<ip[1], 0, ip[3]>>)

ParseStripped(s) ==
    ParseInteger(s, IF Len(s) > 0 /\ Char(s, 1) = "-" THEN -1 ELSE 1,
        ScanDigits(s, IF Len(s) > 0 /\ Char(s, 1) \in {"+", "-"} THEN 2 ELSE 1, 0, 0))

parse_float_safe(x) == ParseStripped(Strip(x))

\* int(v) of an optional float, as <<k>>
IntOpt(v) == IF v = None THEN None ELSE <<FloatToInt(v)>>

\* int(float(x)), None where Python raises
IntOfFloat(x) == IntOpt(parse_float_safe(x))

-----------------------------------------------------------------------------
(* Key-value annotation parser.                                            *)

DictSet(d, k, v) == [x \in (DOMAIN d) \cup {k} |-> IF x = k THEN v ELSE d[x]]

\* the dict after the segment kv, of which eq is the place of the first "="
AddSegment(d, kv, eq) ==
    IF kv = "" \/ eq = 0 THEN d
    ELSE DictSet(d, Strip(SubSeq(kv, 1, eq - 1)), Strip(SubSeq(kv, eq + 1, Len(kv))))

RECURSIVE ParseSegments(_, _, _)
ParseSegments(segs, i, d) ==
    IF i > Len(segs) THEN d
    ELSE ParseSegments(segs, i + 1, AddSegment(d, segs[i], Find(segs[i], "=", 1)))

parse_info(info_str) == ParseSegments(Split(info_str, ";"), 1, <<>>)

-----------------------------------------------------------------------------
(* HWE exact test.                                                         *)

Min2(a, b) == IF a <= b THEN a ELSE b

Max2(a, b) == IF a >= b THEN a ELSE b

prob_mid == One

\* the tolerance 1e-15 of the tail comparison
Tol == Norm(1, -15)

\* the multiplier of one step down, from i heterozygotes to i - 2
LeftRatio(i, rare, n) ==
    FDivInt(i * (i - 1),
            4 * (((rare - i) \div 2) + 1) * ((((2 * n - rare) - i) \div 2) + 1), 0)

\* the multiplier of one step up, from i heterozygotes to i + 2
RightRatio(i, rare, n) ==
    FDivInt(((rare - i) \div 2) * (((2 * n - rare) - i) \div 2) * 4,
            (i + 2) * (i + 1), 0)

\* A loop is a recursion on its variables <<i, prob, sum>>.
TotalStep(i, prob, p_total) == <<i, prob, FAdd(p_total, prob)>>

\* the two loops that sum the whole distribution
RECURSIVE TotalLeft(_, _, _)
TotalLeft(st, rare, n) ==
    IF st[1] > 0
    THEN TotalLeft(TotalStep(st[1] - 2, FMul(st[2], LeftRatio(st[1], rare, n)), st[3]),
                   rare, n)
    ELSE st[3]

RECURSIVE TotalRight(_, _, _)
TotalRight(st, rare, n) ==
    IF st[1] <= rare - 2
    THEN TotalRight(TotalStep(st[1] + 2, FMul(st[2], RightRatio(st[1], rare, n)), st[3]),
                    rare, n)
    ELSE st[3]

\* a probability joins the tail when it is at most that of the mode
TailStep(i, prob, tail) ==
    <<i, prob, IF FLe(prob, FAdd(prob_mid, Tol)) THEN FAdd(tail, prob) ELSE tail>>

\* the two loops that sum the tail
RECURSIVE TailLeft(_, _, _)
TailLeft(st, rare, n) ==
    IF st[1] > 0
    THEN TailLeft(TailStep(st[1] - 2, FMul(st[2], LeftRatio(st[1], rare, n)), st[3]),
                  rare, n)
    ELSE st[3]

RECURSIVE TailRight(_, _, _)
TailRight(st, rare, n) ==
    IF st[1] <= rare - 2
    THEN TailRight(TailStep(st[1] + 2, FMul(st[2], RightRatio(st[1], rare, n)), st[3]),
                   rare, n)
    ELSE st[3]

\* the mode of the heterozygote count, with the parity of rare
HweMid(rare, n) ==
    LET mid == (rare * (2 * n - rare)) \div (2 * n)
    IN  IF (rare % 2) # (mid % 2) THEN mid + 1 ELSE mid

\* p_total, which hwe_pvalue computes and does not use
TotalFrom(mid, rare, n) ==
    TotalRight(<<mid, prob_mid, TotalLeft(<<mid, prob_mid, prob_mid>>, rare, n)>>, rare, n)

HweTotal(obs_hom1, obs_het, obs_hom2) ==
    LET obs_homc == Min2(obs_hom1, obs_hom2)
        obs_homo == Max2(obs_hom1, obs_hom2)
        n        == obs_homc + obs_homo + obs_het
        rare     == 2 * obs_homc + obs_het
    IN  TotalFrom(HweMid(rare, n), rare, n)

\* TailFrom as it would be with the mode left out of the tail
TailFrom_WithoutMode(mid, rare, n) ==
    TailRight(<<mid, prob_mid, TailLeft(<<mid, prob_mid, Zero>>, rare, n)>>, rare, n)

\* tail: the mode first, then the left loop, then the right loop
TailFrom(mid, rare, n) ==
    TailRight(<<mid, prob_mid,
                TailLeft(<<mid, prob_mid, FAdd(Zero, prob_mid)>>, rare, n)>>, rare, n)

\* hwe_pvalue as it would be without the cut at 1.0
hwe_pvalue_Unclamped(obs_hom1, obs_het, obs_hom2) ==
    LET obs_homc == Min2(obs_hom1, obs_hom2)
        obs_homo == Max2(obs_hom1, obs_hom2)
        n        == obs_homc + obs_homo + obs_het
        rare     == 2 * obs_homc + obs_het
    IN  IF n = 0 THEN One ELSE TailFrom(HweMid(rare, n), rare, n)

hwe_pvalue(obs_hom1, obs_het, obs_hom2) ==
    LET obs_homc == Min2(obs_hom1, obs_hom2)
        obs_homo == Max2(obs_hom1, obs_hom2)
        n        == obs_homc + obs_homo + obs_het
        rare     == 2 * obs_homc + obs_het
    IN  IF n = 0 THEN One ELSE FMin(One, TailFrom(HweMid(rare, n), rare, n))

-----------------------------------------------------------------------------
(* EMAC estimator.                                                         *)

Half == Norm(5, -1)

Two == FromInt(2)

emac_from_fields(aaf, n_eff) ==
    IF aaf = None \/ n_eff = None THEN None
    ELSE FMul(FMul(Two, n_eff), IF FLe(aaf, Half) THEN aaf ELSE FSub(One, aaf))

-----------------------------------------------------------------------------
(* Genotype count resolver.                                                *)

\* col_idx.get(c) of the header's columns: the last column named c, counted
\* from 1, and 0 for Python's None
col_idx_get(header_cols, c) ==
    LET at == {i \in 1..Len(header_cols) : header_cols[i] = c}
    IN  IF at = {} THEN 0 ELSE CHOOSE i \in at : \A j \in at : j <= i

\* a triple of optional integers <<k>>, None when one of them is None
TripleOpt(x, y, z) ==
    IF x = None \/ y = None \/ z = None THEN None ELSE <<x[1], y[1], z[1]>>

\* (int(float(a)), int(float(b)), int(float(c))), None where one of them raises
ParseTriple(a, b, c) == TripleOpt(IntOfFloat(a), IntOfFloat(b), IntOfFloat(c))

infer_genotype_counts(parts, header_cols, controls) ==
    LET ref_col == col_idx_get(header_cols, IF controls THEN "Controls_Ref" ELSE "Cases_Ref")
        het_col == col_idx_get(header_cols, IF controls THEN "Controls_Het" ELSE "Cases_Het")
        alt_col == col_idx_get(header_cols, IF controls THEN "Controls_Alt" ELSE "Cases_Alt")
    IN  IF /\ ref_col # 0 /\ het_col # 0 /\ alt_col # 0
           /\ ref_col <= Len(parts) /\ het_col <= Len(parts) /\ alt_col <= Len(parts)
        THEN ParseTriple(parts[ref_col], parts[het_col], parts[alt_col])
        ELSE None

keys_sets ==
    << <<"N_HOMREF", "N_HET", "N_HOMALT">>,
       <<"OBS_HOM1", "OBS_HET", "OBS_HOM2">>,
       <<"hom_ref", "het", "hom_alt">> >>

\* the triple under the keys a, b, c when all three are there and parse
KeysTriple(info, a, b, c) ==
    IF {a, b, c} \subseteq DOMAIN info
    THEN ParseTriple(info[a], info[b], info[c]) ELSE None

RECURSIVE InfoCountsFrom(_, _)
\* InfoCountsNext as it would be if a key set that does not parse ended the search
InfoCountsNext_Stops(info, i, t) == t

\* the triple t of the i-th key set when it has one, the later key sets otherwise
InfoCountsNext(info, i, t) == IF t # None THEN t ELSE InfoCountsFrom(info, i + 1)

InfoCountsFrom(info, i) ==
    IF i > Len(keys_sets) THEN None
    ELSE InfoCountsNext(info, i,
             KeysTriple(info, keys_sets[i][1], keys_sets[i][2], keys_sets[i][3]))

infer_counts_from_info(info) == InfoCountsFrom(info, 1)

-----------------------------------------------------------------------------
(* The per-row statistics of main().                                       *)

\* the annotation map of a row
RowInfo(parts, header_cols, a) ==
    LET info_i == col_idx_get(header_cols, a.info_col)
    IN  IF info_i # 0 /\ info_i <= Len(parts) THEN parse_info(parts[info_i]) ELSE <<>>

\* the counts c of the dedicated columns, those of the annotation when c is None
CountsOr(c, info) == IF c = None THEN infer_counts_from_info(info) ELSE c

\* the genotype counts main() resolves when the annotation has no HWE key
RowCounts(parts, header_cols, a, info) ==
    CountsOr(infer_genotype_counts(parts, header_cols, a.use_controls), info)

\* hwe_pvalue of optional counts
HweOfCounts(c) == IF c # None THEN hwe_pvalue(c[1], c[2], c[3]) ELSE None

\* RowHwe as it would be if an HWE annotation that does not parse gave way to
\* the genotype counts
RowHwe_FallsBack(parts, header_cols, a, info, old) ==
    IF "HWE" \in DOMAIN info /\ parse_float_safe(info["HWE"]) # None
    THEN <<old, parse_float_safe(info["HWE"])>>
    ELSE <<RowCounts(parts, header_cols, a, info),
           HweOfCounts(RowCounts(parts, header_cols, a, info))>>

\* the HWE section: <<counts, hwe_p>>, counts keeping its old value when the
\* annotation has the key HWE
RowHwe(parts, header_cols, a, info, old) ==
    IF "HWE" \in DOMAIN info THEN <<old, parse_float_safe(info["HWE"])>>
    ELSE <<RowCounts(parts, header_cols, a, info),
           HweOfCounts(RowCounts(parts, header_cols, a, info))>>

\* the value of a column as a float, None without the column
ColumnFloat(parts, col_i) ==
    IF col_i # 0 /\ col_i <= Len(parts) THEN parse_float_safe(parts[col_i]) ELSE None

\* the EMAC section
RowEmac(parts, header_cols, a, info) ==
    IF a.use_mac_from_info /\ "MAC" \in DOMAIN info
    THEN parse_float_safe(info["MAC"])
    ELSE IF "EMAC" \in DOMAIN info THEN parse_float_safe(info["EMAC"])
    ELSE emac_from_fields(ColumnFloat(parts, col_idx_get(header_cols, a.aaf_col)),
                          ColumnFloat(parts, col_idx_get(header_cols, a.n_col)))

\* PassHwe as it would be if an unknown p-value passed
PassHwe_UnknownPasses(p, a) == p = None \/ FGe(p, a.hwe_minp)

\* the two checks: an unknown value rejects
PassHwe(p, a) == p # None /\ FGe(p, a.hwe_minp)

PassEmac(e, a) == e # None /\ FGe(e, a.emac_min)

-----------------------------------------------------------------------------
(* The inputs of a run.                                                    *)

\* the command lines: the defaults of argparse, with either flag set or not
ArgsSet ==
    { [emac_min |-> FromInt(100), hwe_minp |-> Norm(1, -12),
       id_col |-> "Name", aaf_col |-> "AAF", n_col |-> "Num_Cases",
       info_col |-> "Info", use_controls |-> c, use_mac_from_info |-> m]
      : c \in BOOLEAN, m \in BOOLEAN }

\* what readline() can return for the first line: "" at end of file
Headers ==
    { "", "\n",
      "Name\tAAF\tNum_Cases\n",
      "Name\tAAF\tNum_Cases\tInfo\n",
      "Name\tAAF\tNum_Cases\tInfo\tCases_Ref\tCases_Het\tCases_Alt\tControls_Ref\tControls_Het\tControls_Alt\n" }

\* the lines that can follow the header
DataLines ==
    { "\n",
      "rs1\t0.3\t200\tHWE=0.9;EMAC=200\t1\t2\t1\t3\t0\t1\n",
      "rs2\t0.3\t200\tHWE=1e-20;EMAC=200\t1\t2\t1\t1\t2\t1\n",
      "rs3\t0.3\t200\t.\t3\t0\t1\t1\t2\t1\n",
      "rs4\t0.9\t50\t.\tx\t0\t1\t1\t2\t1\n",
      "rs5\tNA\tNA\t.\n",
      "rs6\t0.3\t200\tN_HOMREF=2;N_HET=x;N_HOMALT=1;OBS_HOM1=1;OBS_HET=2.7;OBS_HOM2=1\tNA\tNA\tNA\t4\t0\t0\n",
      "rs7\t0.3\t200\tN_HOMREF=2;N_HET=1;hom_ref=0;het=3;hom_alt=1\n",
      "rs8\t0.3\t200\tMAC=50;EMAC=300;HWE=abc\t1\t2\t1\t1\t2\t1\n",
      "rs9\t0.3\t200\t;FLAG; HWE = 0.5 ;EMAC=1e2;HWE=0.9\t1\t2\t1\t1\t2\t1\n",
      "rs10\t0.3\t200\tMAC=x;EMAC=300;HWE=0.5\n",
      "rs11\t0.3\t200\tEMAC=;N_HOMREF=1;N_HET=2;N_HOMALT=1\n" }

-----------------------------------------------------------------------------
(* The streaming driver main().                                            *)

Init ==
    /\ pc = "start"
    /\ args \in ArgsSet
    /\ cols = <<>>
    /\ inp = <<>>
    /\ out = <<>>
    /\ err = <<>>
    /\ total = 0
    /\ kept = 0
    /\ filtered_emac = 0
    /\ filtered_hwe = 0
    /\ line = ""
    /\ counts = None
    /\ hwe_p = None
    /\ emac = None
    /\ pass_hwe = FALSE
    /\ pass_emac = FALSE
    /\ policy = "Strict"

\* the warnings of the columns the header does not name
MissingWarnings(header_cols, a) ==
    LET w(c) == IF col_idx_get(header_cols, c) = 0 THEN <<<<"warn_missing", c>>>> ELSE <<>>
    IN  w(a.id_col) \o w(a.aaf_col) \o w(a.n_col) \o w(a.info_col)

\* the schema is taken from a non-empty header, which is written out
BindHeader(header, header_cols) ==
    /\ cols' = header_cols
    /\ err' = err \o MissingWarnings(header_cols, args)
                  \o <<<<"cols", header_cols>>,
                       <<"filters", args.emac_min, args.hwe_minp>>>>
    /\ out' = out \o <<header \o "\n">>
    /\ pc' = "loop"

\* CheckHeader as it would be without the test of the empty header
CheckHeader_BindsAnyway(header) == BindHeader(header, Split(header, "\t"))

CheckHeader(header) ==
    \/ /\ header = ""
       /\ err' = err \o <<<<"error_empty">>>>
       /\ pc' = "abort"
       /\ UNCHANGED <<cols, out>>
    \/ /\ header # ""
       /\ BindHeader(header, Split(header, "\t"))

\* the first line is read: an empty one ends the run, any other is the schema
ReadHeader ==
    /\ pc = "start"
    /\ \E first \in Headers :
         /\ inp' = <<first>>
         /\ CheckHeader(RStripNL(first))
    /\ UNCHANGED <<args, total, kept, filtered_emac, filtered_hwe, line, counts,
                   hwe_p, emac, pass_hwe, pass_emac, policy>>

\* the id shown by the debug lines of the first three variants
DebugId(parts, header_cols, a) ==
    LET id_i == col_idx_get(header_cols, a.id_col)
    IN  IF id_i # 0 /\ id_i - 1 # 0 /\ id_i <= Len(parts) THEN parts[id_i] ELSE "N/A"

\* FilterRow as it would be if the HWE check alone decided the output
FilterRow_EmitOnHwe(text, parts, hw, e, ph, pe) ==
    /\ total' = total + 1
    /\ counts' = hw[1]
    /\ hwe_p' = hw[2]
    /\ emac' = e
    /\ pass_hwe' = ph
    /\ pass_emac' = pe
    /\ err' = IF total + 1 <= 3
              THEN Append(err, <<"variant", total + 1, DebugId(parts, cols, args),
                                 e, pe, hw[2], ph>>)
              ELSE err
    /\ filtered_emac' = IF pe THEN filtered_emac ELSE filtered_emac + 1
    /\ filtered_hwe' = IF ph THEN filtered_hwe ELSE filtered_hwe + 1
    /\ out' = IF ph THEN Append(out, text \o "\n") ELSE out
    /\ kept' = IF ph THEN kept + 1 ELSE kept

\* the filter of a row with statistics hw = <<counts, hwe_p>> and e, checks ph, pe
FilterRow(text, parts, hw, e, ph, pe) ==
    /\ total' = total + 1
    /\ counts' = hw[1]
    /\ hwe_p' = hw[2]
    /\ emac' = e
    /\ pass_hwe' = ph
    /\ pass_emac' = pe
    /\ err' = IF total + 1 <= 3
              THEN Append(err, <<"variant", total + 1, DebugId(parts, cols, args),
                                 e, pe, hw[2], ph>>)
              ELSE err
    /\ filtered_emac' = IF pe THEN filtered_emac ELSE filtered_emac + 1
    /\ filtered_hwe' = IF ph THEN filtered_hwe ELSE filtered_hwe + 1
    /\ out' = IF ph /\ pe THEN Append(out, text \o "\n") ELSE out
    /\ kept' = IF ph /\ pe THEN kept + 1 ELSE kept

CheckRow(text, parts, hw, e) ==
    FilterRow(text, parts, hw, e, PassHwe(hw[2], args), PassEmac(e, args))

StatsRow(text, parts, info) ==
    CheckRow(text, parts, RowHwe(parts, cols, args, info, counts),
             RowEmac(parts, cols, args, info))

\* ProcessText as it would be if a blank line were counted
ProcessText_CountsBlank(text) ==
    \/ /\ text = ""
       /\ total' = total + 1
       /\ UNCHANGED <<out, err, kept, filtered_emac, filtered_hwe,
                      counts, hwe_p, emac, pass_hwe, pass_emac>>
    \/ /\ text # ""
       /\ StatsRow(text, Split(text, "\t"), RowInfo(Split(text, "\t"), cols, args))

\* the body of the loop for a line without its line end
ProcessText(text) ==
    \/ /\ text = ""
       /\ UNCHANGED <<out, err, total, kept, filtered_emac, filtered_hwe,
                      counts, hwe_p, emac, pass_hwe, pass_emac>>
    \/ /\ text # ""
       /\ StatsRow(text, Split(text, "\t"), RowInfo(Split(text, "\t"), cols, args))

\* one iteration of the loop over the lines
ProcessLine ==
    /\ pc = "loop"
    /\ Len(inp) <= MaxLines
    /\ \E raw \in DataLines :
         /\ inp' = Append(inp, raw)
         /\ line' = RStripNL(raw)
         /\ ProcessText(RStripNL(raw))
    /\ UNCHANGED <<pc, args, cols, policy>>

\* the lines of the summary before the retention rate
SummaryCounts ==
    << <<"summary_rule">>, <<"summary_title">>, <<"summary_total", total>>,
       <<"summary_emac", filtered_emac>>, <<"summary_hwe", filtered_hwe>>,
       <<"summary_kept", kept>> >>

\* the input ends: the summary is written, and its rate divides by total
Finish ==
    /\ pc = "loop"
    /\ \/ /\ total = 0
          /\ err' = err \o SummaryCounts
          /\ pc' = "crash"
       \/ /\ total # 0
          /\ err' = err \o SummaryCounts
                        \o <<<<"summary_rate", FDivInt(100 * kept, total, 0)>>,
                             <<"summary_rule">>>>
          /\ pc' = "done"
    /\ UNCHANGED <<args, cols, inp, out, total, kept, filtered_emac, filtered_hwe,
                   line, counts, hwe_p, emac, pass_hwe, pass_emac, policy>>

Next == ReadHeader \/ ProcessLine \/ Finish

Spec == Init /\ [][Next]_vars

-----------------------------------------------------------------------------
(* The HWE engine on its own: lines 212-214 and 236 of main() from any     *)
(* resolved genotype counts.                                               *)

\* the triples of counts up to MaxCount, and the two of the documentation
Triples ==
    {<<a, h, b>> : a \in 0..MaxCount, h \in 0..MaxCount, b \in 0..MaxCount}
        \cup {<<25, 50, 25>>, <<90, 0, 10>>}

HweMinPs == {Norm(1, -12), Half, One, Two}

ArgsHwe ==
    { [emac_min |-> FromInt(100), hwe_minp |-> t,
       id_col |-> "Name", aaf_col |-> "AAF", n_col |-> "Num_Cases",
       info_col |-> "Info", use_controls |-> FALSE, use_mac_from_info |-> FALSE]
      : t \in HweMinPs }

InitHwe ==
    /\ pc = "hwe_call"
    /\ args \in ArgsHwe
    /\ counts \in Triples
    /\ cols = <<>>
    /\ inp = <<>>
    /\ out = <<>>
    /\ err = <<>>
    /\ total = 0
    /\ kept = 0
    /\ filtered_emac = 0
    /\ filtered_hwe = 0
    /\ line = ""
    /\ hwe_p = None
    /\ emac = None
    /\ pass_hwe = FALSE
    /\ pass_emac = FALSE
    /\ policy = "Strict"

HweCall ==
    /\ pc = "hwe_call"
    /\ hwe_p' = HweOfCounts(counts)
    /\ pc' = "hwe_check"
    /\ UNCHANGED <<args, cols, inp, out, err, total, kept, filtered_emac,
                   filtered_hwe, line, counts, emac, pass_hwe, pass_emac, policy>>

HweCheck ==
    /\ pc = "hwe_check"
    /\ pass_hwe' = PassHwe(hwe_p, args)
    /\ pc' = "hwe_done"
    /\ UNCHANGED <<args, cols, inp, out, err, total, kept, filtered_emac,
                   filtered_hwe, line, counts, hwe_p, emac, pass_emac, policy>>

NextHwe == HweCall \/ HweCheck

SpecHwe == InitHwe /\ [][NextHwe]_vars

-----------------------------------------------------------------------------
(* The driver with the filter policy as a choice: Strict is the filter of  *)
(* main(), Permissive lets an unknown value pass.                          *)

Policies == {"Strict", "Permissive"}

PassHwePermissive(p, a) == p = None \/ FGe(p, a.hwe_minp)

PassEmacPermissive(e, a) == e = None \/ FGe(e, a.emac_min)

PolicyPassHwe(pol, p, a) ==
    IF pol = "Strict" THEN PassHwe(p, a) ELSE PassHwePermissive(p, a)

PolicyPassEmac(pol, e, a) ==
    IF pol = "Strict" THEN PassEmac(e, a) ELSE PassEmacPermissive(e, a)

PolicyCheckRow(text, parts, hw, e) ==
    FilterRow(text, parts, hw, e, PolicyPassHwe(policy, hw[2], args),
              PolicyPassEmac(policy, e, args))

PolicyStatsRow(text, parts, info) ==
    PolicyCheckRow(text, parts, RowHwe(parts, cols, args, info, counts),
                   RowEmac(parts, cols, args, info))

PolicyText(text) ==
    \/ /\ text = ""
       /\ UNCHANGED <<out, err, total, kept, filtered_emac, filtered_hwe,
                      counts, hwe_p, emac, pass_hwe, pass_emac>>
    \/ /\ text # ""
       /\ PolicyStatsRow(text, Split(text, "\t"), RowInfo(Split(text, "\t"), cols, args))

PolicyLine ==
    /\ pc = "loop"
    /\ Len(inp) <= MaxLines
    /\ \E raw \in DataLines :
         /\ inp' = Append(inp, raw)
         /\ line' = RStripNL(raw)
         /\ PolicyText(RStripNL(raw))
    /\ UNCHANGED <<pc, args, cols, policy>>

InitPolicy ==
    /\ pc = "start"
    /\ args \in ArgsSet
    /\ policy \in Policies
    /\ cols = <<>>
    /\ inp = <<>>
    /\ out = <<>>
    /\ err = <<>>
    /\ total = 0
    /\ kept = 0
    /\ filtered_emac = 0
    /\ filtered_hwe = 0
    /\ line = ""
    /\ counts = None
    /\ hwe_p = None
    /\ emac = None
    /\ pass_hwe = FALSE
    /\ pass_emac = FALSE

NextPolicy == ReadHeader \/ PolicyLine \/ Finish

SpecPolicy == InitPolicy /\ [][NextPolicy]_vars

-----------------------------------------------------------------------------
(* What the claims speak of.                                               *)

\* a non-empty header has been read
HeaderOk == Len(inp) >= 1 /\ RStripNL(inp[1]) # ""

\* the last line read was a row, and line and the statistics are those of it
RowDone ==
    /\ pc \in {"loop", "done"}
    /\ Len(inp) >= 2
    /\ line # ""
    /\ line = RStripNL(inp[Len(inp)])

TextInfo(text) == RowInfo(Split(text, "\t"), cols, args)

\* the two checks of a row of fields parts and annotation info
RowHwePasses(parts, info) == PassHwe(RowHwe(parts, cols, args, info, None)[2], args)

RowEmacPasses(parts, info) == PassEmac(RowEmac(parts, cols, args, info), args)

\* what the filter has to say of a line: a row or not, and its two checks
Verdict(text) ==
    [row  |-> text # "",
     hwe  |-> RowHwePasses(Split(text, "\t"), TextInfo(text)),
     emac |-> RowEmacPasses(Split(text, "\t"), TextInfo(text))]

Admits(v) == v.row /\ v.hwe /\ v.emac

\* the lines from the i-th on that are rows and pass both checks, in order
RECURSIVE AdmittedFrom(_)
AdmittedFrom(i) ==
    IF i > Len(inp) THEN <<>>
    ELSE (IF Admits(Verdict(RStripNL(inp[i]))) THEN <<inp[i]>> ELSE <<>>)
             \o AdmittedFrom(i + 1)

\* C1: after a non-empty header the data output is the header line followed
\* by the rows read so far that pass both the HWE and the EMAC check, in the
\* order of the input and each with the text of its input line.
C1_OutputIsFilteredInput == HeaderOk => out = <<inp[1]>> \o AdmittedFrom(2)

\* C1, its case: a run ended after two different admitted rows
C1_Witness ==
    /\ pc = "done"
    /\ Len(inp) = 3
    /\ Len(out) = 3
    /\ out[2] = inp[2]
    /\ out[3] = inp[3]
    /\ inp[2] # inp[3]

C3_SeparatesEquilibrium ==
    pc # "hwe_call" =>
        /\ counts = <<25, 50, 25>> => FLt(Half, hwe_p)
        /\ counts = <<90, 0, 10>> => FLt(hwe_p, Norm(1, -6))

\* C4: for non-negative counts hwe_pvalue has a value, the value lies in
\* [0, 1], and it is the value for the counts with the homozygotes exchanged.
C4_RangeAndSymmetry ==
    pc # "hwe_call" =>
        /\ hwe_p # None
        /\ FLe(Zero, hwe_p)
        /\ FLe(hwe_p, One)
        /\ hwe_p = hwe_pvalue(counts[3], counts[2], counts[1])

\* C4, its case: the test has run on counts that differ from their exchange
C4_Witness == pc = "hwe_done" /\ counts = <<3, 1, 0>> /\ hwe_p # None

\* the statistics hwe_p and emac are those the annotation info gives first
AnnotationFirst(parts, info) ==
    /\ "HWE" \in DOMAIN info => hwe_p = parse_float_safe(info["HWE"])
    /\ IF args.use_mac_from_info /\ "MAC" \in DOMAIN info
       THEN emac = parse_float_safe(info["MAC"])
       ELSE IF "EMAC" \in DOMAIN info
       THEN emac = parse_float_safe(info["EMAC"])
       ELSE emac = emac_from_fields(
                       ColumnFloat(parts, col_idx_get(cols, args.aaf_col)),
                       ColumnFloat(parts, col_idx_get(cols, args.n_col)))

\* C5: the HWE statistic of a row is the parse of the annotation HWE alone when
\* the annotation has that key; its EMAC is the parse of MAC when MAC is asked
\* for and present, else the parse of EMAC when present, and only else the
\* value computed from the allele-frequency and sample-size columns.
C5_AnnotationFirst == RowDone => AnnotationFirst(Split(line, "\t"), TextInfo(line))

\* C5, its case: MAC is asked for and the row has MAC=50, EMAC=300, an HWE
\* annotation that does not parse, and genotype columns that do
C5_Witness ==
    /\ RowDone
    /\ args.use_mac_from_info
    /\ line = "rs8\t0.3\t200\tMAC=50;EMAC=300;HWE=abc\t1\t2\t1\t1\t2\t1"
    /\ col_idx_get(cols, "Cases_Ref") # 0
    /\ hwe_p = None
    /\ emac = FromInt(50)

\* the counts of the dedicated columns of the selected population
ColumnSource(parts) ==
    LET pop == IF args.use_controls THEN "Controls" ELSE "Cases"
        at  == [k \in {"_Ref", "_Het", "_Alt"} |-> col_idx_get(cols, pop \o k)]
    IN  IF \A k \in DOMAIN at : at[k] # 0 /\ at[k] <= Len(parts)
        THEN ParseTriple(parts[at["_Ref"]], parts[at["_Het"]], parts[at["_Alt"]])
        ELSE None

\* the counts of one triple of annotation keys
KeySource(info, a, b, c) ==
    IF a \in DOMAIN info /\ b \in DOMAIN info /\ c \in DOMAIN info
    THEN ParseTriple(info[a], info[b], info[c]) ELSE None

\* the four sources of a row in their order
SourcesOf(parts, info) ==
    << ColumnSource(parts),
       KeySource(info, "N_HOMREF", "N_HET", "N_HOMALT"),
       KeySource(info, "OBS_HOM1", "OBS_HET", "OBS_HOM2"),
       KeySource(info, "hom_ref", "het", "hom_alt") >>

Sources(text) == SourcesOf(Split(text, "\t"), TextInfo(text))

\* the first source of srcs that is there
FirstThere(srcs) ==
    IF \A i \in DOMAIN srcs : srcs[i] = None THEN None
    ELSE srcs[CHOOSE i \in DOMAIN srcs :
                  srcs[i] # None /\ \A j \in 1..(i - 1) : srcs[j] = None]

CountsAre(srcs) ==
    /\ counts = FirstThere(srcs)
    /\ (\A i \in 1..4 : srcs[i] = None) => counts = None

\* C6: the counts resolved for a row are those of the first source, in the
\* order columns, N_HOMREF/N_HET/N_HOMALT, OBS_HOM1/OBS_HET/OBS_HOM2,
\* hom_ref/het/hom_alt, that has its three members and parses; they are
\* unknown, not zero, when no source does.
C6_FirstSourceWins ==
    (RowDone /\ "HWE" \notin DOMAIN TextInfo(line)) => CountsAre(Sources(line))

\* the second key triple gives the counts: srcs has nothing before it
SecondTripleWins(srcs) == srcs[1] = None /\ srcs[2] = None /\ counts = srcs[3]

\* C6, its case: the columns do not parse, the first key triple has a member
\* that does not parse, and the second key triple gives the counts
C6_Witness ==
    /\ RowDone
    /\ "HWE" \notin DOMAIN TextInfo(line)
    /\ col_idx_get(cols, "Cases_Ref") # 0
    /\ {"N_HOMREF", "N_HET", "N_HOMALT"} \subseteq DOMAIN TextInfo(line)
    /\ SecondTripleWins(Sources(line))
    /\ counts = <<1, 2, 1>>

\* the verdicts of the lines read after the header
Verdicts == [i \in 2..Len(inp) |-> Verdict(RStripNL(inp[i]))]

CountersAre(v) ==
    /\ total = Cardinality({i \in DOMAIN v : v[i].row})
    /\ kept = Len(out) - 1
    /\ filtered_emac = Cardinality({i \in DOMAIN v : v[i].row /\ ~v[i].emac})
    /\ filtered_hwe = Cardinality({i \in DOMAIN v : v[i].row /\ ~v[i].hwe})

\* C7: after any prefix of the lines total counts the rows read, blank lines
\* apart, kept the lines written after the header, and each failure counter
\* the rows failing its check; so kept <= total, each failure counter is at
\* most total - kept, and their sum lies between total - kept and twice that.
C7_Counters ==
    HeaderOk =>
        /\ CountersAre(Verdicts)
        /\ kept <= total
        /\ filtered_emac <= total - kept
        /\ filtered_hwe <= total - kept
        /\ total - kept <= filtered_emac + filtered_hwe
        /\ filtered_emac + filtered_hwe <= 2 * (total - kept)

\* C7, its case: a blank line and a row failing both checks have been read
C7_Witness ==
    /\ pc = "loop"
    /\ Len(inp) = 3
    /\ "\n" \in {inp[2], inp[3]}
    /\ total = 1
    /\ kept = 0
    /\ filtered_emac = 1
    /\ filtered_hwe = 1

\* C8: when the first line is empty or missing the run stops at once with the
\* diagnostic: nothing is written to the data output, no line is read or
\* counted, no summary is written, and no step follows.
C8_EmptyHeaderStops ==
    (Len(inp) >= 1 /\ RStripNL(inp[1]) = "") =>
        /\ pc = "abort"
        /\ Len(inp) = 1
        /\ out = <<>>
        /\ err = <<<<"error_empty">>>>
        /\ total = 0 /\ kept = 0 /\ filtered_emac = 0 /\ filtered_hwe = 0
        /\ ~ENABLED Next

\* C8, its case: the first line was an empty line
C8_Witness == pc = "abort" /\ inp = <<"\n">>

\* C9: with a non-empty header the run never ends in an error, and when it
\* has ended the summary with its retention rate has been written.
C9_SummaryAlways ==
    (HeaderOk /\ pc # "loop") =>
        /\ pc = "done"
        /\ \E i \in 1..Len(err) : err[i][1] = "summary_rate"

=============================================================================
